---- MODULE Spec2Model ----
(***************************************************************************)
(* Model of the tweet collector (download_tweets.py) and of the response   *)
(* normaliser (modules/twitter.py, TwitterDataCleaner).                    *)
(*                                                                         *)
(* Time is counted in whole hours since midnight of day 0.  A pandas       *)
(* DataFrame is a record [columns, rows]: the set of its column names and  *)
(* the sequence of its rows, each row a function from column name to      *)
(* value.  A Python dict is a function from its keys to its values.        *)
(***************************************************************************)
EXTENDS Integers, Sequences, FiniteSets, TLC

VARIABLES
    candidates,             \* self.candidates
    start_date,             \* self.start_date (hours)
    end_date,               \* self.end_date (hours)
    tweets_prefix,          \* self.tweets_prefix
    users_prefix,           \* self.users_prefix
    dates,                  \* self.dates
    pc,                     \* position of the program
    ci,                     \* index of the candidate of the outer loop
    di,                     \* index of the date pair of the inner loop
    dates_tweets_collector,
    dates_users_collector,
    tweets_collector,
    users_collector,
    tweets,                 \* self.tweets, the table main returns
    users,                  \* self.users
    err,                    \* the exception that left main, if any
    calls,                  \* requests received by the search endpoint, in order
    batches,                \* per get_batch call, in order: the response and the outcome
    tweets_csv,             \* data/tweets.csv
    users_csv               \* data/users.csv

vars == << candidates, start_date, end_date, tweets_prefix, users_prefix, dates,
           pc, ci, di, dates_tweets_collector, dates_users_collector,
           tweets_collector, users_collector, tweets, users, err, calls,
           batches, tweets_csv, users_csv >>

config == << candidates, start_date, end_date, tweets_prefix, users_prefix >>

(***************************************************************************)
(* Bounds of the model.                                                    *)
(***************************************************************************)
MaxCandidates == 2      \* candidate lists of 0..MaxCandidates names
MaxWindows == 2         \* date ranges of the collection runs span up to this many days
MaxHour == 50           \* start and end hours of the date-generation runs

(***************************************************************************)
(* Program constants.                                                      *)
(***************************************************************************)
HoursPerDay == 24       \* timedelta(days=1), in hours
max_results == 10
ConfiguredStart == 14   \* datetime(2023, 5, 21, 14, 00), hours since 2023-05-21 00:00
ConfiguredEnd == 157    \* datetime(2023, 5, 27, 13, 00), hours since 2023-05-21 00:00

AllCandidates ==
    << "carlos pineda", "sandra torres", "edmond mulet", "zury rios", "manuel conde" >>

(***************************************************************************)
(* Python values and exceptions.                                           *)
(***************************************************************************)
None == "None"

NoError == [exc |-> "None", line |-> 0]

Exception(exc, line) == [exc |-> exc, line |-> line]

Last(s) == s[Len(s)]

\* datetime.isoformat() + "Z": the day and the hour of day are written out.
isoformat(t) == << t \div HoursPerDay, t % HoursPerDay, "Z" >>

\* The instant an ISO string denotes.
fromisoformat(s) == s[1] * HoursPerDay + s[2]

(***************************************************************************)
(* dict and DataFrame primitives.                                          *)
(***************************************************************************)
DictPop(d, k) == [x \in DOMAIN d \ {k} |-> d[x]]

DictUpdate(d, e) ==
    [x \in DOMAIN d \cup DOMAIN e |-> IF x \in DOMAIN e THEN e[x] ELSE d[x]]

\* {f"user_{k}": v for k, v in d.items()}
UserPrefixed(d) ==
    [x \in {"user_" \o k : k \in DOMAIN d} |->
        LET k == CHOOSE k \in DOMAIN d : "user_" \o k = x IN d[k]]

\* pd.DataFrame(list of dicts): one column per key seen, one row per dict.
DataFrame(records) ==
    LET cols == UNION {DOMAIN records[i] : i \in DOMAIN records} IN
    [columns |-> cols,
     rows |-> [i \in DOMAIN records |->
                 [c \in cols |-> IF c \in DOMAIN records[i] THEN records[i][c] ELSE None]]]

NumRows(df) == Len(df.rows)

RECURSIVE FlattenRows(_)
FlattenRows(frames) ==
    IF frames = << >> THEN << >>
    ELSE Head(frames).rows \o FlattenRows(Tail(frames))

ConcatReversed(frames) ==
    LET n == Len(frames)
        rev == [i \in 1..n |-> frames[n + 1 - i]]
        cols == UNION {frames[i].columns : i \in DOMAIN frames}
    IN [columns |-> cols, rows |-> FlattenRows(rev)]

\* pd.concat(frames): the rows of the frames, in the order of the list.
\* Not defined on an empty list, where pandas raises ValueError.
Concat(frames) ==
    LET cols == UNION {frames[i].columns : i \in DOMAIN frames}
        all == FlattenRows(frames)
    IN [columns |-> cols,
        rows |-> [i \in DOMAIN all |->
                    [c \in cols |-> IF c \in DOMAIN all[i] THEN all[i][c] ELSE None]]]

\* df[[c1, c2, ...]]
Project(df, cols) ==
    [columns |-> cols,
     rows |-> [i \in DOMAIN df.rows |-> [c \in cols |-> df.rows[i][c]]]]

\* df.rename(columns=mapping): mapping is a function from old to new names.
Rename(df, mapping) ==
    LET new(c) == IF c \in DOMAIN mapping THEN mapping[c] ELSE c
        old(n) == CHOOSE c \in df.columns : new(c) = n
        cols == {new(c) : c \in df.columns}
    IN [columns |-> cols,
        rows |-> [i \in DOMAIN df.rows |-> [n \in cols |-> df.rows[i][old(n)]]]]

\* pd.to_datetime(v).dt.date: the time of day of <<day, hour>> is dropped;
\* a missing value stays missing.
ToDate(v) == IF v = None THEN None ELSE << v[1] >>

\* df.assign(col = to_datetime(df.col).dt.date)
AssignDate(df, col) ==
    [columns |-> df.columns \cup {col},
     rows |-> [i \in DOMAIN df.rows |->
                 [c \in df.columns \cup {col} |->
                    IF c = col THEN ToDate(df.rows[i][col]) ELSE df.rows[i][c]]]]

\* df[col] = value, the same value on every row
AssignConst(df, col, value) ==
    [columns |-> df.columns \cup {col},
     rows |-> [i \in DOMAIN df.rows |->
                 [c \in df.columns \cup {col} |->
                    IF c = col THEN value ELSE df.rows[i][c]]]]

(***************************************************************************)
(* The responses of the search endpoint.  A tweet and a user are modelled  *)
(* by their data dict; the response carries the page of tweets (data,      *)
(* absent on some empty pages) and the includes dict.                      *)
(***************************************************************************)
Metrics(n) ==
    [retweet_count |-> n, reply_count |-> 0, like_count |-> n + 1,
     quote_count |-> 0, impression_count |-> 10 * n]

Tweet(id, author, created) ==
    [id |-> id, author_id |-> author, created_at |-> created, text |-> "texto",
     possibly_sensitive |-> FALSE, lang |-> "es", public_metrics |-> Metrics(id)]

User(id, name) ==
    [id |-> id, username |-> name, name |-> name, location |-> "GT",
     created_at |-> << id, 9 >>, description |-> "bio",
     profile_image_url |-> "img", verified |-> FALSE,
     public_metrics |-> [followers_count |-> 10 * id, following_count |-> id,
                         tweet_count |-> 3, listed_count |-> 0]]

Response(data, includes) ==
    [data_is_none |-> FALSE, data |-> data, includes |-> includes]

\* Pages whose every tweet has its author among includes['users'].
WellFormedResponses ==
    { Response(<< Tweet(1, 1, << 0, 15 >>) >>, [users |-> << User(1, "ana") >>]),
      Response(<< Tweet(2, 2, << 1, 23 >>), Tweet(3, 1, << 1, 0 >>), Tweet(4, 2, << 0, 14 >>) >>,
               [users |-> << User(2, "beto"), User(1, "ana") >>]) }

\* Pages with a tweet whose author is not among includes['users'].
MissingAuthorResponses ==
    { Response(<< Tweet(5, 1, << 0, 16 >>), Tweet(6, 3, << 0, 17 >>) >>,
               [users |-> << User(1, "ana") >>]) }

\* Pages without tweets, in the shapes a client can hand them over.
EmptyResponses ==
    { [data_is_none |-> TRUE, data |-> << >>, includes |-> << >>],
      Response(<< >>, << >>),
      Response(<< >>, [users |-> << >>]) }

Responses == WellFormedResponses \cup MissingAuthorResponses \cup EmptyResponses

IsEmptyPage(resp) == resp.data_is_none \/ resp.data = << >>

(***************************************************************************)
(* get_tweets: the request sent to the search endpoint.                    *)
(***************************************************************************)
get_tweets_swapped(query, start_time, end_time, max) ==
    [query |-> query \o " -is:retweet -is:reply",
     start_time |-> end_time, end_time |-> start_time, max_results |-> max]

get_tweets(query, start_time, end_time, max) ==
    [query |-> query \o " -is:retweet -is:reply",
     start_time |-> start_time, end_time |-> end_time, max_results |-> max]

(***************************************************************************)
(* TwitterDataCleaner.  Every step yields [err, df]; err is NoError when   *)
(* the step completes.                                                     *)
(***************************************************************************)
EmptyFrame == [columns |-> {}, rows |-> << >>]

Raised(exc, line) == [err |-> Exception(exc, line), df |-> EmptyFrame]

\* One tweet_dict of extract_tweet_data.
tweet_dict(data) ==
    DictUpdate(DictPop(data, "public_metrics"), data.public_metrics)

extract_tweet_data(resp) ==
    IF resp.data_is_none THEN Raised("TypeError", 47)
    ELSE IF \E i \in DOMAIN resp.data : "public_metrics" \notin DOMAIN resp.data[i]
    THEN Raised("KeyError", 49)
    ELSE [err |-> NoError,
          df |-> DataFrame([i \in DOMAIN resp.data |-> tweet_dict(resp.data[i])])]

\* One user_data dict of extract_user_data.
user_data(data) ==
    LET prefixed == UserPrefixed(data) IN
    DictUpdate(DictPop(prefixed, "user_public_metrics"),
               UserPrefixed(prefixed["user_public_metrics"]))

\* The users dict of extract_user_data: a later user of the same id replaces
\* an earlier one.
users_dict(includes_users) ==
    [id \in {includes_users[i].id : i \in DOMAIN includes_users} |->
        LET last == CHOOSE i \in DOMAIN includes_users :
                        /\ includes_users[i].id = id
                        /\ \A j \in DOMAIN includes_users :
                              includes_users[j].id = id => j <= i
        IN user_data(includes_users[last])]

\* users.get(x, {}): an unknown author yields an empty dict instead of an error.
author_lookup_get(lookup, x) ==
    [found |-> TRUE, value |-> IF x \in DOMAIN lookup THEN lookup[x] ELSE << >>]

\* users[x] of the lambda of line 63: KeyError when x is no key of the dict.
author_lookup(lookup, x) ==
    IF x \in DOMAIN lookup THEN [found |-> TRUE, value |-> lookup[x]]
    ELSE [found |-> FALSE, value |-> << >>]

extract_user_data(resp, df) ==
    IF "users" \notin DOMAIN resp.includes THEN Raised("KeyError", 56)
    ELSE IF \E i \in DOMAIN resp.includes["users"] :
                "public_metrics" \notin DOMAIN resp.includes["users"][i]
    THEN Raised("KeyError", 59)
    ELSE IF "author_id" \notin df.columns THEN Raised("KeyError", 63)
    ELSE
      LET lookup == users_dict(resp.includes["users"])
          data_of(i) == author_lookup(lookup, df.rows[i]["author_id"])
      IN
      IF \E i \in DOMAIN df.rows : ~data_of(i).found THEN Raised("KeyError", 63)
      ELSE
        LET user_columns == UNION {DOMAIN data_of(i).value : i \in DOMAIN df.rows}
            cols == df.columns \cup user_columns
        IN [err |-> NoError,
            df |-> [columns |-> cols,
                    rows |-> [i \in DOMAIN df.rows |->
                        [c \in cols |->
                            IF c \in user_columns
                            THEN (IF c \in DOMAIN data_of(i).value
                                  THEN data_of(i).value[c] ELSE None)
                            ELSE df.rows[i][c]]]]]

TweetColumns ==
    {"id", "author_id", "created_at", "text", "possibly_sensitive", "retweet_count",
     "reply_count", "like_count", "quote_count", "impression_count", "lang"}

UserColumns ==
    {"user_id", "user_username", "user_name", "user_location", "user_created_at",
     "user_description", "user_profile_image_url", "user_verified",
     "user_followers_count", "user_following_count", "user_tweet_count",
     "user_listed_count"}

\* df.drop_duplicates(): the first of equal rows is kept.
DropDuplicates(df) ==
    LET RECURSIVE Keep(_)
        Keep(i) == IF i > Len(df.rows) THEN << >>
                   ELSE (IF \E j \in 1..(i - 1) : df.rows[j] = df.rows[i]
                         THEN << >> ELSE << df.rows[i] >>) \o Keep(i + 1)
    IN [columns |-> df.columns, rows |-> Keep(1)]

\* segregate_data with one user row per distinct author.
segregate_data_dedup(df) ==
    IF ~(TweetColumns \subseteq df.columns)
    THEN [err |-> Exception("KeyError", 72), tweets_df |-> EmptyFrame, users_df |-> EmptyFrame]
    ELSE IF ~(UserColumns \subseteq df.columns)
    THEN [err |-> Exception("KeyError", 77), tweets_df |-> EmptyFrame, users_df |-> EmptyFrame]
    ELSE [err |-> NoError,
          tweets_df |-> Project(df, TweetColumns),
          users_df |-> DropDuplicates(Project(df, UserColumns))]

\* segregate_data: [err, tweets_df, users_df]
segregate_data(df) ==
    IF ~(TweetColumns \subseteq df.columns)
    THEN [err |-> Exception("KeyError", 72), tweets_df |-> EmptyFrame, users_df |-> EmptyFrame]
    ELSE IF ~(UserColumns \subseteq df.columns)
    THEN [err |-> Exception("KeyError", 77), tweets_df |-> EmptyFrame, users_df |-> EmptyFrame]
    ELSE [err |-> NoError,
          tweets_df |-> Project(df, TweetColumns),
          users_df |-> Project(df, UserColumns)]

TweetRenames(prefix) ==
    [id |-> prefix \o "tweet", author_id |-> prefix \o "usuario",
     created_at |-> prefix \o "fecha", text |-> prefix \o "texto",
     possibly_sensitive |-> prefix \o "sensitivo",
     retweet_count |-> prefix \o "retweets", reply_count |-> prefix \o "replies",
     like_count |-> prefix \o "likes", quote_count |-> prefix \o "quotes",
     impression_count |-> prefix \o "impresiones", lang |-> prefix \o "idioma"]

UserRenames(prefix) ==
    [user_id |-> prefix \o "usuario", user_username |-> prefix \o "handle",
     user_name |-> prefix \o "nombre", user_location |-> prefix \o "ubicacion",
     user_created_at |-> prefix \o "fecha_creacion",
     user_description |-> prefix \o "descripcion",
     user_profile_image_url |-> prefix \o "imagen",
     user_verified |-> prefix \o "verificado",
     user_followers_count |-> prefix \o "seguidores",
     user_following_count |-> prefix \o "siguiendo",
     user_tweet_count |-> prefix \o "tweets", user_listed_count |-> prefix \o "listas"]

\* clean_data takes no argument: both prefixes are the literals of lines 84 and 103.
clean_data(tweets_df, users_df) ==
    [tweets_df |-> AssignDate(Rename(tweets_df, TweetRenames("tw_")), "tw_fecha"),
     users_df |-> AssignDate(Rename(users_df, UserRenames("us_")), "us_fecha_creacion")]

\* TwitterDataCleaner.run: [err, tweets_df, users_df]
run(resp) ==
    LET failed(e) == [err |-> e, tweets_df |-> EmptyFrame, users_df |-> EmptyFrame]
        t == extract_tweet_data(resp)
    IN IF t.err # NoError THEN failed(t.err)
       ELSE LET u == extract_user_data(resp, t.df) IN
            IF u.err # NoError THEN failed(u.err)
            ELSE LET s == segregate_data(u.df) IN
                 IF s.err # NoError THEN failed(s.err)
                 ELSE LET c == clean_data(s.tweets_df, s.users_df) IN
                      [err |-> NoError, tweets_df |-> c.tweets_df, users_df |-> c.users_df]

(***************************************************************************)
(* DownloadTweets.                                                         *)
(***************************************************************************)
RECURSIVE date_pairs_inclusive(_, _)
\* The loop of generate_dates with the test written date <= self.end_date.
date_pairs_inclusive(date, end) ==
    IF date <= end
    THEN << << isoformat(date), isoformat(date + HoursPerDay) >> >>
            \o date_pairs_inclusive(date + HoursPerDay, end)
    ELSE << >>

RECURSIVE date_pairs(_, _)
\* The while loop of generate_dates, from `date` on.
date_pairs(date, end) ==
    IF date < end
    THEN << << isoformat(date), isoformat(date + HoursPerDay) >> >>
            \o date_pairs(date + HoursPerDay, end)
    ELSE << >>

generate_dates(start, end) == date_pairs(start, end)

\* get_batch once the endpoint has answered resp: [err, tweets, users].
\* Its chain make_request ... preprocess_data is the pipeline of
\* modules/twitter.py: get_tweets, then the steps of TwitterDataCleaner.run.
get_batch(candidate, resp) ==
    LET r == run(resp) IN
    IF r.err # NoError THEN [err |-> r.err, tweets |-> EmptyFrame, users |-> EmptyFrame]
    ELSE [err |-> NoError,
          tweets |-> AssignConst(r.tweets_df, "candidato", candidate),
          users |-> r.users_df]

\* main's handler that logs the error and returns normally.
main_except_swallow(e) == [pc |-> "returned", err |-> e]

\* except Exception as e: logger.error(...); raise e
main_except(e) == [pc |-> "raised", err |-> e]

\* A csv file: whether it exists, the header lines and rows written to it
\* by to_csv, and the number of to_csv calls that wrote to it.
NoFile == [exists |-> FALSE, headers |-> 0, rows |-> << >>, writes |-> 0]

OldFile == [exists |-> TRUE, headers |-> 0, rows |-> << >>, writes |-> 0]

\* df.to_csv(path, mode='a', index=False, header=header)
to_csv(file, df, header) ==
    [exists |-> TRUE,
     headers |-> file.headers + (IF header THEN 1 ELSE 0),
     rows |-> file.rows \o df.rows,
     writes |-> file.writes + 1]

(***************************************************************************)
(* The collection run: main, DownloadTweets.download_tweets and the        *)
(* persistence block of the script.                                        *)
(***************************************************************************)
CandidateLists == {SubSeq(AllCandidates, 1, n) : n \in 0..MaxCandidates}

\* End dates around each whole number of days after the start, so that the
\* run has 0..MaxWindows date pairs.
CollectEnds(start) ==
    {start + k * HoursPerDay + r : k \in 0..(MaxWindows - 1), r \in {-1, 0, 1}}

InitRun ==
    /\ pc = "main"
    /\ dates = << >>
    /\ ci = 1
    /\ di = 1
    /\ dates_tweets_collector = << >>
    /\ dates_users_collector = << >>
    /\ tweets_collector = << >>
    /\ users_collector = << >>
    /\ tweets = EmptyFrame
    /\ users = EmptyFrame
    /\ err = NoError
    /\ calls = << >>
    /\ batches = << >>

Init ==
    /\ candidates \in CandidateLists
    /\ start_date = ConfiguredStart
    /\ end_date \in CollectEnds(start_date)
    /\ tweets_prefix \in {"tw_", "t_"}
    /\ users_prefix \in {"us_", "u_"}
    /\ tweets_csv \in {NoFile, OldFile}
    /\ users_csv = tweets_csv
    /\ InitRun

\* download_tweets up to the loops: generate_dates and the empty collectors.
GenerateDates ==
    /\ pc = "main"
    /\ dates' = generate_dates(start_date, end_date)
    /\ pc' = "collect"
    /\ ci' = 1
    /\ di' = 1
    /\ tweets_collector' = << >>
    /\ users_collector' = << >>
    /\ dates_tweets_collector' = << >>
    /\ dates_users_collector' = << >>
    /\ UNCHANGED << config, tweets, users, err, calls, batches, tweets_csv, users_csv >>

InLoop == pc = "collect" /\ ci <= Len(candidates)

Request ==
    get_tweets(candidates[ci], dates[di][1], dates[di][2], max_results)

\* The record kept of one get_batch call: whether the endpoint answered, its
\* response, the exception raised (NoError if none) and the tables returned.
NoResponse == [data_is_none |-> TRUE, data |-> << >>, includes |-> << >>]

BatchLog(fetched, resp, e, t, u) ==
    [fetched |-> fetched, resp |-> resp, err |-> e, tweets |-> t, users |-> u]

\* One pass of the inner loop in which the search endpoint raises.
GetBatchFetchRaises ==
    /\ InLoop /\ di <= Len(dates)
    /\ calls' = Append(calls, Request)
    /\ pc' = main_except(Exception("TweepyException", 13)).pc
    /\ err' = main_except(Exception("TweepyException", 13)).err
    /\ batches' = Append(batches, BatchLog(FALSE, NoResponse, Exception("TweepyException", 13),
                                           EmptyFrame, EmptyFrame))
    /\ UNCHANGED << config, dates, ci, di, dates_tweets_collector,
                    dates_users_collector, tweets_collector, users_collector,
                    tweets, users, tweets_csv, users_csv >>

\* One pass of the inner loop in which the search endpoint answers.
GetBatch ==
    /\ InLoop /\ di <= Len(dates)
    /\ calls' = Append(calls, Request)
    /\ \E resp \in Responses :
         LET b == get_batch(candidates[ci], resp) IN
         IF b.err # NoError
         THEN /\ pc' = main_except(b.err).pc
              /\ err' = main_except(b.err).err
              /\ batches' = Append(batches, BatchLog(TRUE, resp, b.err, b.tweets, b.users))
              /\ UNCHANGED << di, dates_tweets_collector, dates_users_collector >>
         ELSE /\ dates_tweets_collector' = Append(dates_tweets_collector, b.tweets)
              /\ dates_users_collector' = Append(dates_users_collector, b.users)
              /\ di' = di + 1
              /\ batches' = Append(batches, BatchLog(TRUE, resp, NoError, b.tweets, b.users))
              /\ UNCHANGED << pc, err >>
    /\ UNCHANGED << config, dates, ci, tweets_collector, users_collector,
                    tweets, users, tweets_csv, users_csv >>

\* The end of the inner loop: the candidate's frames are concatenated.
EndCandidate ==
    /\ InLoop /\ di > Len(dates)
    /\ IF dates_tweets_collector = << >>
       THEN /\ pc' = main_except(Exception("ValueError", 133)).pc
            /\ err' = main_except(Exception("ValueError", 133)).err
            /\ UNCHANGED << ci, di, tweets_collector, users_collector,
                            dates_tweets_collector, dates_users_collector >>
       ELSE /\ tweets_collector' = Append(tweets_collector, Concat(dates_tweets_collector))
            /\ users_collector' = Append(users_collector, Concat(dates_users_collector))
            /\ ci' = ci + 1
            /\ di' = 1
            /\ dates_tweets_collector' = << >>
            /\ dates_users_collector' = << >>
            /\ UNCHANGED << pc, err >>
    /\ UNCHANGED << config, dates, tweets, users, calls, batches, tweets_csv, users_csv >>

\* The end of the outer loop: the final concatenation and the return of main.
Return ==
    /\ pc = "collect" /\ ci > Len(candidates)
    /\ IF tweets_collector = << >>
       THEN /\ pc' = main_except(Exception("ValueError", 136)).pc
            /\ err' = main_except(Exception("ValueError", 136)).err
            /\ UNCHANGED << tweets, users >>
       ELSE /\ tweets' = Concat(tweets_collector)
            /\ users' = Concat(users_collector)
            /\ pc' = "returned"
            /\ UNCHANGED err
    /\ UNCHANGED << config, dates, ci, di, dates_tweets_collector, dates_users_collector,
                    tweets_collector, users_collector, calls, batches,
                    tweets_csv, users_csv >>

\* The script after main has returned: both tables are appended to their files.
Save ==
    /\ pc = "returned"
    /\ tweets_csv' = to_csv(tweets_csv, tweets, ~tweets_csv.exists)
    /\ users_csv' = to_csv(users_csv, users, ~users_csv.exists)
    /\ pc' = "saved"
    /\ UNCHANGED << config, dates, ci, di, dates_tweets_collector, dates_users_collector,
                    tweets_collector, users_collector, tweets, users, err, calls, batches >>

Next ==
    \/ GenerateDates
    \/ GetBatchFetchRaises
    \/ GetBatch
    \/ EndCandidate
    \/ Return
    \/ Save

Spec == Init /\ [][Next]_vars

(***************************************************************************)
(* Date generation alone, over every start and end hour up to MaxHour and  *)
(* the configured range.                                                   *)
(***************************************************************************)
InitDates ==
    /\ candidates = << >>
    /\ start_date \in (0..MaxHour) \cup {ConfiguredStart}
    /\ end_date \in (0..MaxHour) \cup {ConfiguredEnd}
    /\ tweets_prefix = "tw_"
    /\ users_prefix = "us_"
    /\ tweets_csv = NoFile
    /\ users_csv = NoFile
    /\ InitRun

NextDates == GenerateDates

SpecDates == InitDates /\ [][NextDates]_vars

(***************************************************************************)
(* Properties.                                                             *)
(***************************************************************************)
Ended == pc \in {"raised", "returned", "saved"}

Cells == Len(candidates) * Len(dates)

\* The candidate and the date pair of the k-th cell of the double loop.
SubjectOfCell(k) == candidates[((k - 1) \div Len(dates)) + 1]

WindowOfCell(k) == dates[((k - 1) % Len(dates)) + 1]

Succeeded(k) == batches[k].fetched /\ batches[k].err = NoError

IncludedIds(resp) ==
    IF "users" \in DOMAIN resp.includes
    THEN {resp.includes["users"][i].id : i \in DOMAIN resp.includes["users"]}
    ELSE {}

\* A page with tweets whose authors are all among its included users.
WellFormed(resp) ==
    /\ ~IsEmptyPage(resp)
    /\ \A i \in DOMAIN resp.data : resp.data[i].author_id \in IncludedIds(resp)

\* A page with a tweet whose author is not among its included users.
HasMissingAuthor(resp) ==
    /\ ~IsEmptyPage(resp)
    /\ "users" \in DOMAIN resp.includes
    /\ \E i \in DOMAIN resp.data : resp.data[i].author_id \notin IncludedIds(resp)

\* C1: the search endpoint is called for the cells of candidates x date pairs
\* in candidate-major, date-minor order, each cell at most once and none
\* skipped: the k-th request is for the k-th cell, and a run in which no cell
\* fails makes exactly |candidates| * |dates| requests.
C1_FetchOrder ==
    pc # "main" =>
        /\ Len(calls) <= Cells
        /\ \A k \in 1..Len(calls) :
              /\ calls[k].query = SubjectOfCell(k) \o " -is:retweet -is:reply"
              /\ calls[k].start_time = WindowOfCell(k)[1]
              /\ calls[k].end_time = WindowOfCell(k)[2]
        /\ (pc \in {"returned", "saved"} \/ err.exc = "ValueError") => Len(calls) = Cells

C1_Witness ==
    /\ pc = "returned"
    /\ Len(candidates) = 2
    /\ Len(dates) = 2
    /\ Len(calls) = 4
    /\ calls[3].query = "sandra torres -is:retweet -is:reply"
    /\ calls[3].start_time = dates[1][1]

\* C2: when a request to the search endpoint fails, whatever its position,
\* the error leaves main, the failing request is the last one made, no table
\* is returned and nothing is written to the two files; the files are written
\* only after every request of the run has succeeded.
C2_FetchFailureAborts ==
    /\ (\E k \in DOMAIN batches : ~batches[k].fetched) =>
          /\ pc = "raised"
          /\ err = Exception("TweepyException", 13)
          /\ ~Last(batches).fetched
          /\ \A k \in 1..(Len(batches) - 1) : Succeeded(k)
          /\ Len(calls) = Len(batches)
          /\ tweets = EmptyFrame /\ users = EmptyFrame
          /\ tweets_csv.writes = 0 /\ users_csv.writes = 0
    /\ (tweets_csv.writes > 0 \/ users_csv.writes > 0) =>
          /\ err = NoError
          /\ Len(calls) = Cells
          /\ Len(batches) = Cells
          /\ \A k \in DOMAIN batches : Succeeded(k)

C2_Witness ==
    /\ pc = "raised"
    /\ err = Exception("TweepyException", 13)
    /\ Len(calls) = 4
    /\ Cells = 4
    /\ tweets_csv.writes = 0

\* C3: for start_date < end_date, generate_dates yields a non-empty list of
\* date pairs; the first starts at start_date, every pair spans one day, each
\* pair ends where the next starts, and the last pair ends at the first of
\* start_date + k days that is >= end_date (end_date itself when the range
\* is a whole number of days).
C3_Windows ==
    (pc # "main" /\ start_date < end_date) =>
        /\ Len(dates) >= 1
        /\ fromisoformat(dates[1][1]) = start_date
        /\ \A i \in DOMAIN dates :
              fromisoformat(dates[i][2]) = fromisoformat(dates[i][1]) + HoursPerDay
        /\ \A i \in 1..(Len(dates) - 1) : dates[i][2] = dates[i + 1][1]
        /\ fromisoformat(Last(dates)[2]) >= end_date
        /\ fromisoformat(Last(dates)[2]) - HoursPerDay < end_date
        /\ ((end_date - start_date) % HoursPerDay = 0
                => fromisoformat(Last(dates)[2]) = end_date)

C3_Witness ==
    /\ pc # "main"
    /\ start_date = ConfiguredStart
    /\ end_date = ConfiguredEnd
    /\ Len(dates) = 6
    /\ Last(dates)[2] = isoformat(ConfiguredStart + 6 * HoursPerDay)

\* C4: for start_date < end_date the last date pair does not end after
\* end_date, whether or not the range is a whole number of days.
C4_LastEndWithinRange ==
    (pc # "main" /\ start_date < end_date) =>
        fromisoformat(Last(dates)[2]) <= end_date

\* The tweet id and the candidate expected on each row of the final table:
\* the tweets of the responses, call after call, in the order of each page.
RECURSIVE ExpectedPosts(_)
ExpectedPosts(k) ==
    IF k > Len(batches) THEN << >>
    ELSE [i \in DOMAIN batches[k].resp.data |->
             << batches[k].resp.data[i].id, SubjectOfCell(k) >>]
         \o ExpectedPosts(k + 1)

\* C5: the returned tweets table holds the rows of the calls in
\* candidate-major, date-minor order, each page in its own order, every row
\* labelled in 'candidato' with the candidate it was fetched for; it has as
\* many rows as the calls produced together.
C5_RowOrderAndLabel ==
    pc \in {"returned", "saved"} =>
        /\ Len(batches) = Cells
        /\ Len(tweets.rows) = Len(ExpectedPosts(1))
        /\ \A i \in DOMAIN tweets.rows :
              /\ tweets.rows[i]["tw_tweet"] = ExpectedPosts(1)[i][1]
              /\ tweets.rows[i]["candidato"] = ExpectedPosts(1)[i][2]

C5_Witness ==
    /\ pc = "returned"
    /\ Len(candidates) = 2
    /\ Len(dates) = 2
    /\ Len(tweets.rows) = 8
    /\ Len(batches[1].resp.data) = 3
    /\ tweets.rows[4]["candidato"] = "carlos pineda"
    /\ tweets.rows[5]["candidato"] = "sandra torres"

\* C6: a page with a tweet whose author is not among the included users
\* makes the author lookup fail (KeyError of users[x], line 63): get_batch
\* returns no table for it, no row with null author columns is produced, none
\* of its tweets is kept, and the error ends the run.
C6_MissingAuthorFails ==
    \A k \in DOMAIN batches :
        (batches[k].fetched /\ HasMissingAuthor(batches[k].resp)) =>
            /\ batches[k].err = Exception("KeyError", 63)
            /\ batches[k].tweets = EmptyFrame
            /\ batches[k].users = EmptyFrame
            /\ k = Len(batches)
            /\ pc = "raised"
            /\ err = Exception("KeyError", 63)
            /\ tweets = EmptyFrame /\ users = EmptyFrame
            /\ tweets_csv.writes = 0

C6_Witness ==
    /\ Len(batches) = 3
    /\ HasMissingAuthor(batches[3].resp)
    /\ batches[3].err = Exception("KeyError", 63)
    /\ pc = "raised"

\* C7: with an empty candidate list, or with start_date >= end_date, the run
\* fails with ConfigError before any request is made.
C7_ConfigError ==
    (Ended /\ (candidates = << >> \/ start_date >= end_date)) =>
        /\ err.exc = "ConfigError"
        /\ calls = << >>

TweetDestinations ==
    {"tweet", "usuario", "fecha", "texto", "sensitivo", "retweets", "replies",
     "likes", "quotes", "impresiones", "idioma"}

UserDestinations ==
    {"usuario", "handle", "nombre", "ubicacion", "fecha_creacion", "descripcion",
     "imagen", "verificado", "seguidores", "siguiendo", "tweets", "listas"}

\* C8: whatever the configured prefixes, the tables of a call have exactly
\* the columns tweets_prefix + d for the 11 tweet destinations (and the
\* label 'candidato') and users_prefix + d for the 12 user destinations, no
\* source column name remains, and the two date columns hold calendar dates.
C8_SchemaTotal ==
    \A k \in DOMAIN batches : Succeeded(k) =>
        /\ batches[k].tweets.columns \ {"candidato"}
              = {tweets_prefix \o d : d \in TweetDestinations}
        /\ batches[k].users.columns = {users_prefix \o d : d \in UserDestinations}
        /\ batches[k].tweets.columns \cap TweetColumns = {}
        /\ batches[k].users.columns \cap UserColumns = {}
        /\ \A i \in DOMAIN batches[k].tweets.rows :
              batches[k].tweets.rows[i][tweets_prefix \o "fecha"]
                 = << batches[k].resp.data[i].created_at[1] >>
        /\ \A i \in DOMAIN batches[k].users.rows :
              Len(batches[k].users.rows[i][users_prefix \o "fecha_creacion"]) = 1

\* C9: a page without tweets is a valid result: get_batch returns a pair of
\* empty tables and the run goes on.
C9_EmptyPageValid ==
    \A k \in DOMAIN batches :
        (batches[k].fetched /\ IsEmptyPage(batches[k].resp)) =>
            /\ batches[k].err = NoError
            /\ err = NoError

\* The author row expected for a user of the includes.
ExpectedAuthorRow(u) ==
    [us_usuario |-> u.id, us_handle |-> u.username, us_nombre |-> u.name,
     us_ubicacion |-> u.location, us_fecha_creacion |-> << u.created_at[1] >>,
     us_descripcion |-> u.description, us_imagen |-> u.profile_image_url,
     us_verificado |-> u.verified,
     us_seguidores |-> u.public_metrics.followers_count,
     us_siguiendo |-> u.public_metrics.following_count,
     us_tweets |-> u.public_metrics.tweet_count,
     us_listas |-> u.public_metrics.listed_count]

IncludedUser(resp, id) ==
    LET us == resp.includes["users"] IN
    us[CHOOSE j \in DOMAIN us : us[j].id = id]

\* C10: a well-formed page yields one author row per tweet row, without
\* deduplication: the i-th author row is the author of the i-th tweet with
\* every column filled from the included user; the returned users table has
\* as many rows as the returned tweets table, row i being the author of
\* tweet row i.
C10_AuthorRowPerPost ==
    /\ \A k \in DOMAIN batches :
          (batches[k].fetched /\ WellFormed(batches[k].resp)) =>
              /\ batches[k].err = NoError
              /\ Len(batches[k].tweets.rows) = Len(batches[k].resp.data)
              /\ Len(batches[k].users.rows) = Len(batches[k].resp.data)
              /\ \A i \in DOMAIN batches[k].resp.data :
                    batches[k].users.rows[i] =
                        ExpectedAuthorRow(IncludedUser(batches[k].resp,
                                                       batches[k].resp.data[i].author_id))
    /\ pc \in {"returned", "saved"} =>
          /\ Len(users.rows) = Len(tweets.rows)
          /\ \A i \in DOMAIN users.rows :
                users.rows[i]["us_usuario"] = tweets.rows[i]["tw_usuario"]

C10_Witness ==
    /\ pc = "returned"
    /\ Len(batches) = 4
    /\ Len(users.rows) = 8
    /\ Len(tweets.rows) = 8
    /\ Len(batches[2].users.rows) = 3
    /\ batches[2].users.rows[1]["us_usuario"] = batches[2].users.rows[3]["us_usuario"]

====
